---- MODULE Spec2Model ----
(***************************************************************************)
(* Model of the paper-correction pipeline: extractor.py (OCR of printed    *)
(* PDFs), htr.py (handwriting transcriber) and htr_pipeline.py (solution   *)
(* parser, grader, report generator, run_pipeline).                        *)
(*                                                                         *)
(* A model response is a sequence of lexemes:                              *)
(*   "{"  "}"   brace characters                                           *)
(*   "[]"       a complete JSON value that is not an object                *)
(*   "p"        prose (text that is no JSON lexeme)                        *)
(*   "F" "J"    the markdown fences ``` and ```json                        *)
(*   " "        whitespace                                                 *)
(*   "a" "b" "s" "r" "q"   one complete object member, separator included: *)
(*     a  "answers":   [{"question_number":"1","answer_text":"B",          *)
(*                       "answer_type":"mcq"}]                             *)
(*     b  "answers":   [{"answer_text":"B"}]                               *)
(*     s  "solutions": [{"question_number":"1","correct_answer":"B", ...}] *)
(*     r  "results":   [{"question_number":"1","is_correct":true, ...}]    *)
(*     q  "results":   [{"is_correct":false}]                              *)
(* The member lexemes contain the brace characters of their record.        *)
(***************************************************************************)
EXTENDS Integers, Sequences, FiniteSets, TLC

VARIABLES
    \* run_pipeline / extract_handwritten_text
    pc, entry, environ, log, raw, result, found, written, json_file,
    txt_file, extracted, solutions, grading, final_file, report_file,
    raised, solfile, console,
    \* the response handling applied to one response text
    presp, pcall, pout,
    \* extract_text_from_pdf
    x_pc, npages, texts, idx, full_text, out_file, ret

pipe_vars == <<pc, entry, environ, log, raw, result, found, written,
               json_file, txt_file, extracted, solutions, grading,
               final_file, report_file, raised, solfile, console>>
parse_vars == <<presp, pcall, pout>>
ocr_vars == <<x_pc, npages, texts, idx, full_text, out_file, ret>>
vars == <<pipe_vars, parse_vars, ocr_vars>>

----------------------------------------------------------------------------
\* Bounds

MaxRawLen == 4
MaxRespLen == 3
MaxReplyLen == 3
MaxPages == 3

SeqsUpTo(S, n) == UNION {[1..k -> S] : k \in 0..n}

Min(S) == CHOOSE x \in S : \A y \in S : x <= y
Max(S) == CHOOSE x \in S : \A y \in S : x >= y

----------------------------------------------------------------------------
\* JSON values

EmptyObj ==
    [kind |-> "dict", keys |-> {}, answers |-> <<>>, solutions |-> <<>>,
     results |-> <<>>, total_questions_found |-> 0, total_marks |-> 0,
     extraction_notes |-> "", source_pdf |-> "", api_calls_used |-> 0,
     question_number |-> "", answer_text |-> <<>>, answer_type |-> ""]

NullObj == [EmptyObj EXCEPT !.kind = "null"]

JsonArray == [EmptyObj EXCEPT !.kind = "list"]

Rec(keys, qn, text, type) ==
    [EmptyObj EXCEPT !.keys = keys, !.question_number = qn,
                     !.answer_text = text, !.answer_type = type]

MemberTokens == {"a", "b", "s", "r", "q"}

MemberKey(m) ==
    CASE m \in {"a", "b"} -> "answers"
      [] m = "s" -> "solutions"
      [] m \in {"r", "q"} -> "results"

MemberEntry(m) ==
    CASE m = "a" -> Rec({"question_number", "answer_text", "answer_type"},
                        "1", <<"B">>, "mcq")
      [] m = "b" -> Rec({"answer_text"}, "", <<"B">>, "")
      [] m = "s" -> Rec({"question_number", "correct_answer", "answer_type",
                         "marks", "explanation"}, "1", <<"B">>, "mcq")
      [] m = "r" -> Rec({"question_number", "student_answer",
                         "correct_answer", "is_correct", "marks_awarded",
                         "marks_available", "feedback"}, "1", <<"B">>, "")
      [] m = "q" -> Rec({"is_correct"}, "", <<>>, "")

\* dict.get(key, default)
Get(d, key, default) == IF key \in d.keys THEN d[key] ELSE default

RECURSIVE MakeDict(_)
MakeDict(ms) ==
    IF ms = <<>> THEN EmptyObj
    ELSE LET d == MakeDict(SubSeq(ms, 1, Len(ms) - 1))
             m == ms[Len(ms)]
         IN [d EXCEPT !.keys = @ \cup {MemberKey(m)},
                      ![MemberKey(m)] = <<MemberEntry(m)>>]

\* json.loads: ok = FALSE stands for json.JSONDecodeError
JsonLoads(text) ==
    LET t == SelectSeq(text, LAMBDA x : x # " ")
    IN IF t = <<"[]">> THEN [ok |-> TRUE, value |-> JsonArray]
       ELSE IF /\ Len(t) >= 2
               /\ t[1] = "{"
               /\ t[Len(t)] = "}"
               /\ \A k \in 2..(Len(t) - 1) : t[k] \in MemberTokens
            THEN [ok |-> TRUE, value |-> MakeDict(SubSeq(t, 2, Len(t) - 1))]
            ELSE [ok |-> FALSE, value |-> NullObj]

----------------------------------------------------------------------------
\* str methods

RECURSIVE LStrip(_)
LStrip(s) == IF s # <<>> /\ s[1] = " " THEN LStrip(Tail(s)) ELSE s

RECURSIVE RStrip(_)
RStrip(s) ==
    IF s # <<>> /\ s[Len(s)] = " " THEN RStrip(SubSeq(s, 1, Len(s) - 1))
    ELSE s

Strip(s) == RStrip(LStrip(s))

Replace(s, tok) == SelectSeq(s, LAMBDA x : x # tok)

Take(s, n) == SubSeq(s, 1, IF Len(s) < n THEN Len(s) ELSE n)

\* raw.replace("```json", "").replace("```", "").strip()
Clean(text) == Strip(Replace(Replace(text, "J"), "F"))

----------------------------------------------------------------------------
\* re.search(r'\{[\s\S]*\}', raw): from the first "{" to the last "}"

HasOpen(t) == t = "{" \/ t \in MemberTokens
HasClose(t) == t = "}" \/ t \in MemberTokens

RegexSearch(text) ==
    LET opens == {i \in 1..Len(text) : HasOpen(text[i])}
    IN IF opens = {} THEN [found |-> FALSE, lo |-> 0, hi |-> 0]
       ELSE LET lo == Min(opens)
                closes == {j \in lo..Len(text) :
                              /\ HasClose(text[j])
                              /\ (j = lo => text[lo] \in MemberTokens)}
            IN IF closes = {} THEN [found |-> FALSE, lo |-> 0, hi |-> 0]
               ELSE [found |-> TRUE, lo |-> lo, hi |-> Max(closes)]

\* json.loads(match.group()); a match that begins or ends inside a member
\* lexeme is cut through that member's list and is no JSON document
MatchLoads(text) ==
    LET m == RegexSearch(text)
    IN IF m.lo = m.hi
       THEN [ok |-> TRUE, value |-> MemberEntry(text[m.lo])]
       ELSE IF text[m.lo] = "{" /\ text[m.hi] = "}"
            THEN JsonLoads(SubSeq(text, m.lo, m.hi))
            ELSE [ok |-> FALSE, value |-> NullObj]

----------------------------------------------------------------------------
\* Exceptions

NoError == [where |-> "", type |-> "", text |-> <<>>]
Err(where, type, text) == [where |-> where, type |-> type, text |-> text]

\* raw[:300]; the model counts lexemes, each at least one character long
DiagLen == 300

\* _parse_json
ParseJson(text) ==
    LET first == JsonLoads(Clean(text))
    IN IF first.ok
       THEN [status |-> "returned", value |-> first.value, error |-> NoError]
       ELSE IF RegexSearch(text).found
            THEN LET second == MatchLoads(text)
                 IN IF second.ok
                    THEN [status |-> "returned", value |-> second.value,
                          error |-> NoError]
                    ELSE [status |-> "raised", value |-> NullObj,
                          error |-> Err("_parse_json", "JSONDecodeError",
                                        <<>>)]
            ELSE [status |-> "raised", value |-> NullObj,
                  error |-> Err("_parse_json", "ValueError",
                                Take(text, DiagLen))]

Degraded(text) ==
    [EmptyObj EXCEPT
        !.keys = {"answers", "total_questions_found", "pages_processed",
                  "extraction_notes"},
        !.answers = <<Rec({"question_number", "answer_text", "answer_type"},
                          "?", text, "raw")>>,
        !.total_questions_found = 0,
        !.extraction_notes = "JSON parse failed - raw text included"]

\* extract_all_pages, from the response text on
ExtractParse(text) ==
    LET first == JsonLoads(Clean(text))
    IN IF first.ok
       THEN [status |-> "returned", value |-> first.value, error |-> NoError]
       ELSE IF RegexSearch(text).found /\ MatchLoads(text).ok
            THEN [status |-> "returned", value |-> MatchLoads(text).value,
                  error |-> NoError]
            ELSE [status |-> "returned", value |-> Degraded(text),
                  error |-> NoError]

----------------------------------------------------------------------------
\* Idle values of the three groups of variables

NullTxt == [source |-> "", found |-> 0, notes |-> "", body |-> <<>>]
NullFinal == [extraction |-> NullObj, solutions |-> NullObj,
              grading |-> NullObj]
NullReport == [source |-> "", questions |-> 0, awarded |-> 0,
               available |-> 0, rows |-> <<>>]
NoOutcome == [status |-> "none", value |-> NullObj, error |-> NoError]

PipeIdle ==
    /\ pc = "idle" /\ entry = "" /\ environ = "" /\ log = <<>>
    /\ raw = <<>> /\ result = NullObj /\ found = 0 /\ written = {}
    /\ json_file = NullObj /\ txt_file = NullTxt /\ extracted = NullObj
    /\ solutions = NullObj /\ grading = NullObj /\ final_file = NullFinal
    /\ report_file = NullReport /\ raised = NoError /\ solfile = "unknown"
    /\ console = {}

ParseIdle == presp = <<>> /\ pcall = "idle" /\ pout = NoOutcome

OcrIdle ==
    /\ x_pc = "idle" /\ npages = 0 /\ texts = <<>> /\ idx = 0
    /\ full_text = <<>> /\ out_file = <<>> /\ ret = <<>>

----------------------------------------------------------------------------
\* Response handling applied to one response text

RawTokens == {"{", "}", "[]", "p", "F", "J", " ", "a"}

InitParse ==
    /\ presp \in SeqsUpTo(RawTokens, MaxRawLen)
    /\ pcall = "none"
    /\ pout = NoOutcome
    /\ PipeIdle /\ OcrIdle

\* _call_gemini followed by _parse_json (extract_solutions, grade_answers)
CallParseJson ==
    /\ pcall = "none"
    /\ pcall' = "_parse_json"
    /\ pout' = ParseJson(Strip(presp))
    /\ UNCHANGED <<presp, pipe_vars, ocr_vars>>

\* extract_all_pages from response.text on
CallExtractParse ==
    /\ pcall = "none"
    /\ pcall' = "extract_all_pages"
    /\ pout' = ExtractParse(Strip(presp))
    /\ UNCHANGED <<presp, pipe_vars, ocr_vars>>

NextParse == CallParseJson \/ CallExtractParse

SpecParse == InitParse /\ [][NextParse]_vars

----------------------------------------------------------------------------
\* run_pipeline and extract_handwritten_text

HANDWRITTEN_PDF == "handwritten-ans.pdf"
HTR_OUTPUT_TXT == "handwritten-ans.txt"
HTR_OUTPUT_JSON == "handwritten-ans.json"
OUTPUT_JSON == "final_output.json"
OUTPUT_REPORT == "grading_report.txt"

Unset == "<unset>"
Placeholder == "your_gemini_api_key_here"
EnvValues == {Unset, "", Placeholder, "key"}

\* load_env: os.environ.setdefault with the stripped value of the .env line
SetDefault(env, dotenv) ==
    IF env = Unset /\ dotenv # Unset THEN dotenv ELSE env

\* get_client without the comparison with the placeholder
KeyRejectedNoPlaceholder(api_key) == api_key = Unset \/ api_key = ""

\* get_client: not api_key or api_key == "your_gemini_api_key_here"
KeyRejected(api_key) ==
    api_key = Unset \/ api_key = "" \/ api_key = Placeholder

Call(name, ok) == [call |-> name, ok |-> ok]

TranscriberTokens == {"{", "}", "[]", "p", "F", " ", "a", "b"}
SolutionTokens == {"{", "}", "[]", "p", "F", " ", "s"}
GraderTokens == {"{", "}", "[]", "p", "F", " ", "r", "q"}

\* what client.models.generate_content does: it raises, or it returns a text
Generations(tokens, n) ==
    {[ok |-> FALSE, text |-> <<>>]}
        \cup {[ok |-> TRUE, text |-> t] : t \in SeqsUpTo(tokens, n)}

\* raw = _call_gemini(client, prompt); result = _parse_json(raw).
\* The run records which exception ended it, not the message it carries.
CallAndParse(g) ==
    IF g.ok
    THEN LET out == ParseJson(Strip(g.text))
         IN [called |-> TRUE, status |-> out.status, value |-> out.value,
             error |-> [out.error EXCEPT !.text = <<>>]]
    ELSE [called |-> FALSE, status |-> "raised", value |-> NullObj,
          error |-> Err("_call_gemini", "APIError", <<>>)]

\* the outcomes of the request of extract_solutions and of grade_answers
SolutionReplies ==
    {CallAndParse(g) : g \in Generations(SolutionTokens, MaxReplyLen)}
GraderReplies ==
    {CallAndParse(g) : g \in Generations(GraderTokens, MaxReplyLen)}

\* a failure of the Grader swallowed by run_pipeline
OnRaiseSwallowed(stage) == IF stage = "grade" THEN "write_final" ELSE "raised"

\* an exception leaves run_pipeline and extract_handwritten_text: no handler
OnRaise(stage) == "raised"

\* the cleanup without its try/except
DeleteOutcomePropagates(ok) ==
    IF ok THEN [pc |-> "summarise", raised |-> NoError]
    ELSE [pc |-> "raised",
          raised |-> Err("extract_handwritten_text", "APIError", <<>>)]

\* try: client.files.delete(...) except Exception: pass
DeleteOutcome(ok) == [pc |-> "summarise", raised |-> NoError]

\* if os.path.exists("solutions.txt")
SolutionsRequested(exists) == exists

EmptySolutions ==
    [EmptyObj EXCEPT !.keys = {"solutions", "total_marks"}]

MissingSolutionsWarning == "solutions.txt not found"

\* str.upper of the answer types
Upper(t) ==
    CASE t = "mcq" -> "MCQ"
      [] t = "written" -> "WRITTEN"
      [] t = "raw" -> "RAW"
      [] OTHER -> t

\* the first answer record the text writer cannot format
FirstBad(answers) ==
    LET bad == {k \in 1..Len(answers) :
                   \/ "question_number" \notin answers[k].keys
                   \/ "answer_text" \notin answers[k].keys}
    IN IF bad = {} THEN 0 ELSE Min(bad)

TxtRow(ans) ==
    [question_number |-> ans.question_number,
     tag |-> Upper(Get(ans, "answer_type", "written")),
     answer_text |-> Get(ans, "answer_text", <<"<unwritten>">>)]

\* the rows the loop over result["answers"] writes before it ends or raises
TxtBody(answers) ==
    LET b == FirstBad(answers)
        n == IF b = 0 THEN Len(answers)
             ELSE IF "question_number" \in answers[b].keys THEN b ELSE b - 1
    IN [k \in 1..n |-> TxtRow(answers[k])]

InitPipe ==
    /\ pc = "load_env"
    /\ entry \in {"run_pipeline", "extract_handwritten_text"}
    /\ environ \in EnvValues
    /\ log = <<>> /\ raw = <<>> /\ result = NullObj /\ found = 0
    /\ written = {} /\ json_file = NullObj /\ txt_file = NullTxt
    /\ extracted = NullObj /\ solutions = NullObj /\ grading = NullObj
    /\ final_file = NullFinal /\ report_file = NullReport
    /\ raised = NoError /\ solfile = "unknown" /\ console = {}
    /\ ParseIdle /\ OcrIdle

\* load_env at import of htr / htr_pipeline
LoadEnv ==
    /\ pc = "load_env"
    /\ \E dotenv \in EnvValues : environ' = SetDefault(environ, dotenv)
    /\ pc' = IF entry = "run_pipeline" THEN "get_client" ELSE "htr_get_client"
    /\ UNCHANGED <<entry, log, raw, result, found, written, json_file,
                   txt_file, extracted, solutions, grading, final_file,
                   report_file, raised, solfile, console>>
    /\ UNCHANGED <<parse_vars, ocr_vars>>

\* run_pipeline: client = get_client()
PipelineGetClient ==
    /\ pc = "get_client"
    /\ IF KeyRejected(environ)
       THEN /\ pc' = OnRaise(pc)
            /\ raised' = Err("get_client", "EnvironmentError", <<>>)
       ELSE /\ pc' = "htr_get_client"
            /\ UNCHANGED raised
    /\ UNCHANGED <<entry, environ, log, raw, result, found, written,
                   json_file, txt_file, extracted, solutions, grading,
                   final_file, report_file, solfile, console>>
    /\ UNCHANGED <<parse_vars, ocr_vars>>

\* extract_handwritten_text: client = get_client()
HtrGetClient ==
    /\ pc = "htr_get_client"
    /\ IF KeyRejected(environ)
       THEN /\ pc' = OnRaise(pc)
            /\ raised' = Err("get_client", "EnvironmentError", <<>>)
       ELSE /\ pc' = "upload"
            /\ UNCHANGED raised
    /\ UNCHANGED <<entry, environ, log, raw, result, found, written,
                   json_file, txt_file, extracted, solutions, grading,
                   final_file, report_file, solfile, console>>
    /\ UNCHANGED <<parse_vars, ocr_vars>>

\* upload_pdf
UploadPdf ==
    /\ pc = "upload"
    /\ \E ok \in BOOLEAN :
          /\ log' = Append(log, Call("upload", ok))
          /\ IF ok
             THEN pc' = "extract" /\ UNCHANGED raised
             ELSE /\ pc' = OnRaise(pc)
                  /\ raised' = Err("upload_pdf", "APIError", <<>>)
    /\ UNCHANGED <<entry, environ, raw, result, found, written, json_file,
                   txt_file, extracted, solutions, grading, final_file,
                   report_file, solfile, console>>
    /\ UNCHANGED <<parse_vars, ocr_vars>>

\* extract_all_pages: one generation request, then the response handling
ExtractAllPages ==
    /\ pc = "extract"
    /\ \E g \in Generations(TranscriberTokens, MaxRespLen) :
          /\ log' = Append(log, Call("generate:transcribe", g.ok))
          /\ IF g.ok
             THEN /\ raw' = Strip(g.text)
                  /\ result' = ExtractParse(Strip(g.text)).value
                  /\ pc' = "delete"
                  /\ UNCHANGED raised
             ELSE /\ pc' = OnRaise(pc)
                  /\ raised' = Err("extract_all_pages", "APIError", <<>>)
                  /\ UNCHANGED <<raw, result>>
    /\ UNCHANGED <<entry, environ, found, written, json_file, txt_file,
                   extracted, solutions, grading, final_file, report_file,
                   solfile, console>>
    /\ UNCHANGED <<parse_vars, ocr_vars>>

\* cleanup of the uploaded file
DeleteUpload ==
    /\ pc = "delete"
    /\ \E ok \in BOOLEAN :
          /\ log' = Append(log, Call("delete", ok))
          /\ pc' = DeleteOutcome(ok).pc
          /\ raised' = DeleteOutcome(ok).raised
    /\ UNCHANGED <<entry, environ, raw, result, found, written, json_file,
                   txt_file, extracted, solutions, grading, final_file,
                   report_file, solfile, console>>
    /\ UNCHANGED <<parse_vars, ocr_vars>>

\* found, pages, notes, source_pdf, api_calls_used
Summarise ==
    /\ pc = "summarise"
    /\ IF result.kind # "dict"
       THEN /\ pc' = OnRaise(pc)
            /\ raised' = Err("extract_handwritten_text", "AttributeError",
                             <<>>)
            /\ UNCHANGED <<result, found>>
       ELSE /\ found' = Get(result, "total_questions_found",
                            Len(Get(result, "answers", <<>>)))
            /\ result' = [result EXCEPT
                             !.keys = @ \cup {"source_pdf", "api_calls_used"},
                             !.source_pdf = HANDWRITTEN_PDF,
                             !.api_calls_used = 1]
            /\ pc' = "write_json"
            /\ UNCHANGED raised
    /\ UNCHANGED <<entry, environ, log, raw, written, json_file, txt_file,
                   extracted, solutions, grading, final_file, report_file,
                   solfile, console>>
    /\ UNCHANGED <<parse_vars, ocr_vars>>

\* json.dump(result) to output_json
WriteJson ==
    /\ pc = "write_json"
    /\ json_file' = result
    /\ written' = written \cup {HTR_OUTPUT_JSON}
    /\ pc' = "write_txt"
    /\ UNCHANGED <<entry, environ, log, raw, result, found, txt_file,
                   extracted, solutions, grading, final_file, report_file,
                   raised, solfile, console>>
    /\ UNCHANGED <<parse_vars, ocr_vars>>

\* the text file, then return result
WriteTxt ==
    /\ pc = "write_txt"
    /\ written' = written \cup {HTR_OUTPUT_TXT}
    /\ txt_file' = [source |-> HANDWRITTEN_PDF,
                    found |-> found,
                    notes |-> Get(result, "extraction_notes",
                                  "Clean extraction"),
                    body |-> TxtBody(Get(result, "answers", <<>>))]
    /\ IF FirstBad(Get(result, "answers", <<>>)) # 0
       THEN /\ pc' = OnRaise(pc)
            /\ raised' = Err("extract_handwritten_text", "KeyError", <<>>)
            /\ UNCHANGED extracted
       ELSE /\ pc' = IF entry = "run_pipeline" THEN "solutions" ELSE "done"
            /\ extracted' = result
            /\ UNCHANGED raised
    /\ UNCHANGED <<entry, environ, log, raw, result, found, json_file,
                   solutions, grading, final_file, report_file, solfile,
                   console>>
    /\ UNCHANGED <<parse_vars, ocr_vars>>

\* the solutions step of run_pipeline, extract_solutions included
SolutionsStep ==
    /\ pc = "solutions"
    /\ \E exists \in BOOLEAN :
          IF SolutionsRequested(exists)
          THEN /\ solfile' = IF exists THEN "present" ELSE "absent"
               /\ UNCHANGED console
               /\ \E out \in SolutionReplies :
                     /\ log' = Append(log, Call("generate:solutions",
                                                out.called))
                     /\ IF out.status = "raised"
                        THEN /\ pc' = OnRaise(pc)
                             /\ raised' = out.error
                             /\ UNCHANGED solutions
                        ELSE IF out.value.kind # "dict"
                        THEN /\ pc' = OnRaise(pc)
                             /\ raised' = Err("extract_solutions",
                                              "AttributeError", <<>>)
                             /\ UNCHANGED solutions
                        ELSE /\ solutions' = out.value
                             /\ pc' = "grade"
                             /\ UNCHANGED raised
          ELSE /\ solfile' = "absent"
               /\ console' = console \cup {MissingSolutionsWarning}
               /\ solutions' = EmptySolutions
               /\ pc' = "grade"
               /\ UNCHANGED <<log, raised>>
    /\ UNCHANGED <<entry, environ, raw, result, found, written, json_file,
                   txt_file, extracted, grading, final_file, report_file>>
    /\ UNCHANGED <<parse_vars, ocr_vars>>

\* grade_answers; question.txt, when present, only adds its first 3000
\* characters to the prompt and changes nothing the run keeps
GradeAnswers ==
    /\ pc = "grade"
    /\ \E out \in GraderReplies :
          /\ log' = Append(log, Call("generate:grade", out.called))
          /\ IF out.status = "raised"
             THEN /\ pc' = OnRaise(pc)
                  /\ raised' = out.error
                  /\ UNCHANGED grading
             ELSE IF out.value.kind # "dict"
             THEN /\ pc' = OnRaise(pc)
                  /\ raised' = Err("grade_answers", "AttributeError", <<>>)
                  /\ UNCHANGED grading
             ELSE /\ grading' = out.value
                  /\ pc' = "write_final"
                  /\ UNCHANGED raised
    /\ UNCHANGED <<entry, environ, raw, result, found, written, json_file,
                   txt_file, extracted, solutions, final_file, report_file,
                   solfile, console>>
    /\ UNCHANGED <<parse_vars, ocr_vars>>

\* final_output.json
WriteFinal ==
    /\ pc = "write_final"
    /\ final_file' = [extraction |-> extracted, solutions |-> solutions,
                      grading |-> grading]
    /\ written' = written \cup {OUTPUT_JSON}
    /\ pc' = "report"
    /\ UNCHANGED <<entry, environ, log, raw, result, found, json_file,
                   txt_file, extracted, solutions, grading, report_file,
                   raised, solfile, console>>
    /\ UNCHANGED <<parse_vars, ocr_vars>>

\* generate_report: the lines are built first, the file is written last
GenerateReport ==
    /\ pc = "report"
    /\ LET results == Get(grading, "results", <<>>)
       IN IF \E k \in 1..Len(results) :
                 "question_number" \notin results[k].keys
          THEN /\ pc' = OnRaise(pc)
               /\ raised' = Err("generate_report", "KeyError", <<>>)
               /\ UNCHANGED <<report_file, written>>
          ELSE /\ report_file' =
                     [source |-> Get(extracted, "source_pdf", "N/A"),
                      questions |-> Get(extracted, "total_questions_found", 0),
                      awarded |-> Get(grading, "total_marks_awarded", 0),
                      available |-> Get(grading, "total_marks_available", 0),
                      rows |-> [k \in 1..Len(results) |->
                                   results[k].question_number]]
               /\ written' = written \cup {OUTPUT_REPORT}
               /\ pc' = "done"
               /\ UNCHANGED raised
    /\ UNCHANGED <<entry, environ, log, raw, result, found, json_file,
                   txt_file, extracted, solutions, grading, final_file,
                   solfile, console>>
    /\ UNCHANGED <<parse_vars, ocr_vars>>

Next ==
    \/ LoadEnv
    \/ PipelineGetClient
    \/ HtrGetClient
    \/ UploadPdf
    \/ ExtractAllPages
    \/ DeleteUpload
    \/ Summarise
    \/ WriteJson
    \/ WriteTxt
    \/ SolutionsStep
    \/ GradeAnswers
    \/ WriteFinal
    \/ GenerateReport

Spec == InitPipe /\ [][Next]_vars

----------------------------------------------------------------------------
\* extract_text_from_pdf.  A text is a sequence of chunks; the decimal
\* digits of a page number are chunks of their own.

PageTexts == {<<>>, <<"x">>, <<"--- Page ", "2", " ---">>}

Digit(d) == <<"0", "1", "2", "3", "4", "5", "6", "7", "8", "9">>[d + 1]

\* str(n) inside the f-string
RECURSIVE Decimal(_)
Decimal(n) ==
    IF n < 10 THEN <<Digit(n)>> ELSE Decimal(n \div 10) \o <<Digit(n % 10)>>

\* the marker numbered with the 0-based index
PageNumberZeroBased(i) == i

\* enumerate(pages) counts from 0; the marker shows i + 1
PageNumber(i) == i + 1

\* f"--- Page {i + 1} ---\n{text}\n\n"
PageBlock(i, text) ==
    <<"--- Page ">> \o Decimal(PageNumber(i)) \o <<" ---", "\n">>
        \o text \o <<"\n", "\n">>

InitExtractor ==
    /\ x_pc = "start"
    /\ npages \in 0..MaxPages
    /\ texts = <<>> /\ idx = 0 /\ full_text = <<>>
    /\ out_file = <<>> /\ ret = <<>>
    /\ PipeIdle /\ ParseIdle

\* pages = convert_from_path(pdf_path); full_text = ""
Rasterize ==
    /\ x_pc = "start"
    /\ \E ok \in BOOLEAN : x_pc' = IF ok THEN "loop" ELSE "raised"
    /\ UNCHANGED <<npages, texts, idx, full_text, out_file, ret>>
    /\ UNCHANGED <<pipe_vars, parse_vars>>

\* one iteration of the loop over the pages
OcrPage ==
    /\ x_pc = "loop"
    /\ idx < npages
    /\ \E text \in PageTexts :
          /\ texts' = Append(texts, text)
          /\ full_text' = full_text \o PageBlock(idx, text)
    /\ idx' = idx + 1
    /\ UNCHANGED <<x_pc, npages, out_file, ret>>
    /\ UNCHANGED <<pipe_vars, parse_vars>>

\* with open(output_txt_path, "w") as f: f.write(full_text)
WriteOutput ==
    /\ x_pc = "loop"
    /\ idx = npages
    /\ out_file' = full_text
    /\ x_pc' = "written"
    /\ UNCHANGED <<npages, texts, idx, full_text, ret>>
    /\ UNCHANGED <<pipe_vars, parse_vars>>

\* return full_text
ReturnText ==
    /\ x_pc = "written"
    /\ ret' = full_text
    /\ x_pc' = "done"
    /\ UNCHANGED <<npages, texts, idx, full_text, out_file>>
    /\ UNCHANGED <<pipe_vars, parse_vars>>

NextExtractor == Rasterize \/ OcrPage \/ WriteOutput \/ ReturnText

SpecExtractor == InitExtractor /\ [][NextExtractor]_vars

----------------------------------------------------------------------------
\* Properties of the response handling

BothParsesFail(text) ==
    /\ ~JsonLoads(Clean(text)).ok
    /\ RegexSearch(text).found => ~MatchLoads(text).ok

\* C2: whenever both JSON parse attempts of _parse_json fail, the call
\* raises an error that carries the first 300 characters of the raw model
\* output, and it returns no value.
C2_RaisesWithRawPrefix ==
    (pcall = "_parse_json" /\ BothParsesFail(Strip(presp)))
        => /\ pout.status = "raised"
           /\ pout.error.text = Take(Strip(presp), DiagLen)

ProseTokens == {"p", " ", "{", "}"}

\* the places of the response text that hold a JSON object
ObjectSpans(text) ==
    {sp \in (1..Len(text)) \X (1..Len(text)) :
        /\ sp[1] < sp[2]
        /\ text[sp[1]] = "{"
        /\ text[sp[2]] = "}"
        /\ JsonLoads(SubSeq(text, sp[1], sp[2])).ok}

\* prose before and/or after a single JSON object, the whole not being JSON
ProseAroundObject(text) ==
    /\ Cardinality(ObjectSpans(text)) = 1
    /\ \A sp \in ObjectSpans(text) :
          \A k \in 1..Len(text) :
              (k < sp[1] \/ k > sp[2]) => text[k] \in ProseTokens
    /\ ~JsonLoads(Clean(text)).ok

TheObject(text) ==
    LET sp == CHOOSE x \in ObjectSpans(text) : TRUE
    IN JsonLoads(SubSeq(text, sp[1], sp[2])).value

\* C8: for a response made of prose before and/or after a single JSON
\* object, the repair step of the Transcriber, the Solution Parser and the
\* Grader returns exactly that object, whatever the prose contains.
C8_RepairReturnsTheObject ==
    (pcall \in {"_parse_json", "extract_all_pages"}
        /\ ProseAroundObject(Strip(presp)))
        => /\ pout.status = "returned"
           /\ pout.value = TheObject(Strip(presp))

----------------------------------------------------------------------------
\* Properties of extract_text_from_pdf

RECURSIVE PagesConcat(_, _)
PagesConcat(ts, n) ==
    IF n = 0 THEN <<>>
    ELSE PagesConcat(ts, n - 1)
            \o <<"--- Page ">> \o Decimal(n) \o <<" ---", "\n">>
            \o ts[n] \o <<"\n", "\n">>

MarkerAt(text, pos, k) ==
    /\ pos + Len(Decimal(k)) + 1 <= Len(text)
    /\ text[pos] = "--- Page "
    /\ SubSeq(text, pos + 1, pos + Len(Decimal(k))) = Decimal(k)
    /\ text[pos + Len(Decimal(k)) + 1] = " ---"

\* the markers 1..n occur in the text from position start on, in this order
RECURSIVE MarkersInOrder(_, _, _, _)
MarkersInOrder(text, k, n, start) ==
    IF k > n THEN TRUE
    ELSE LET hits == {pos \in start..Len(text) : MarkerAt(text, pos, k)}
         IN hits # {} /\ MarkersInOrder(text, k + 1, n, Min(hits) + 1)

\* C9: for a PDF of N pages extract_text_from_pdf returns and writes the
\* same text, the concatenation over k = 1..N in page order of
\* "--- Page k ---\n" + page_text_k + "\n\n"; it contains the N markers for
\* k = 1..N in increasing order.
C9_PageMarkers ==
    x_pc = "done"
        => /\ Len(texts) = npages
           /\ ret = out_file
           /\ ret = PagesConcat(texts, npages)
           /\ MarkersInOrder(ret, 1, npages, 1)

C9_Witness ==
    /\ x_pc = "done"
    /\ npages = 2
    /\ texts[1] = <<"--- Page ", "2", " ---">>
    /\ ret = out_file

----------------------------------------------------------------------------
\* Properties of the Transcriber and of run_pipeline

Calls(name) == {k \in 1..Len(log) : log[k].call = name}
Issued(name) == Calls(name) # {}
Returned(name) == \E k \in Calls(name) : log[k].ok
Failed(name) == \E k \in Calls(name) : ~log[k].ok

Ended == pc \in {"done", "raised"}

\* extract_handwritten_text has returned or raised
HtrEnded ==
    pc \in {"done", "raised", "solutions", "grade", "write_final", "report"}

HtrRaised ==
    /\ pc = "raised"
    /\ raised.where \in {"extract_all_pages", "extract_handwritten_text"}

IsDegraded(r, text) ==
    /\ "total_questions_found" \in r.keys
    /\ r.total_questions_found = 0
    /\ "answers" \in r.keys
    /\ Len(r.answers) = 1
    /\ r.answers[1].answer_type = "raw"
    /\ r.answers[1].answer_text = text
    /\ "extraction_notes" \in r.keys
    /\ r.extraction_notes # ""

\* C1: whatever text the model returns to the Transcriber's generation
\* request, the Transcriber does not raise; and when neither the
\* fence-stripped parse nor the brace-block parse succeeds, the result has
\* total_questions_found = 0, exactly one answer record of type raw holding
\* the entire raw response, and a non-empty extraction note.
C1_TranscriberNeverRaises ==
    Returned("generate:transcribe")
        => /\ ~HtrRaised
           /\ BothParsesFail(raw) => IsDegraded(result, raw)

\* the result the Transcriber builds from a response text
HtrResult(text) ==
    LET v == ExtractParse(text).value
    IN [v EXCEPT !.keys = @ \cup {"source_pdf", "api_calls_used"},
                 !.source_pdf = HANDWRITTEN_PDF,
                 !.api_calls_used = 1]

ListsEveryAnswer(file, r) ==
    /\ Len(file.body) = Len(Get(r, "answers", <<>>))
    /\ \A k \in 1..Len(file.body) :
          /\ file.body[k].question_number = r.answers[k].question_number
          /\ file.body[k].tag = Upper(Get(r.answers[k], "answer_type",
                                          "written"))

\* C5: every invocation of the Transcriber in which the upload and the
\* generation request return writes both output files: the JSON file holds
\* the result with source_pdf set to the input path and api_calls_used = 1,
\* and the text file lists every answer record with its question number and
\* type tag.
C5_BothFilesWritten ==
    (Returned("upload") /\ Returned("generate:transcribe") /\ HtrEnded)
        => /\ {HTR_OUTPUT_JSON, HTR_OUTPUT_TXT} \subseteq written
           /\ json_file = result
           /\ json_file.source_pdf = HANDWRITTEN_PDF
           /\ json_file.api_calls_used = 1
           /\ ListsEveryAnswer(txt_file, result)

\* C6: in every run of the Transcriber in which the upload succeeds, a
\* delete request is issued after the generation request and before the
\* Transcriber finishes, on every exit path.
C6_DeleteOnEveryExit ==
    (Returned("upload") /\ HtrEnded)
        => \E g \in Calls("generate:transcribe") :
              \E d \in Calls("delete") : g < d

\* the response alone decides whether extract_handwritten_text raises
HtrRaises(text) ==
    LET v == ExtractParse(text).value
    IN v.kind # "dict" \/ FirstBad(Get(v, "answers", <<>>)) # 0

HtrTxt(text) ==
    LET v == ExtractParse(text).value
    IN [source |-> HANDWRITTEN_PDF,
        found |-> Get(v, "total_questions_found",
                      Len(Get(v, "answers", <<>>))),
        notes |-> Get(v, "extraction_notes", "Clean extraction"),
        body |-> TxtBody(Get(v, "answers", <<>>))]

\* C7: a failure of the delete request is swallowed: once the delete request
\* was issued, the returned result and both output files are decided by the
\* model response alone, the same whether the delete succeeded or failed,
\* and the Transcriber raises only what the response itself makes it raise.
C7_DeleteFailureSwallowed ==
    (Issued("delete") /\ HtrEnded)
        => /\ (pc = "raised" /\ raised.where = "extract_handwritten_text")
                 <=> HtrRaises(raw)
           /\ pc = "raised" => raised # NoError
           /\ ~HtrRaises(raw)
                 => /\ extracted = HtrResult(raw)
                    /\ {HTR_OUTPUT_JSON, HTR_OUTPUT_TXT} \subseteq written
                    /\ json_file = HtrResult(raw)
                    /\ txt_file = HtrTxt(raw)

C7_Witness ==
    /\ Failed("delete")
    /\ pc = "done"
    /\ entry = "extract_handwritten_text"
    /\ {HTR_OUTPUT_JSON, HTR_OUTPUT_TXT} \subseteq written
    /\ Len(extracted.answers) = 1
    /\ extracted.answers[1].answer_type = "mcq"

BadKey(k) == k \in {Unset, "", Placeholder}

\* C4: when the API key is missing, empty or the placeholder, both entry
\* points fail with the configuration error before any network call: no
\* upload, generation or delete request is made and no file is written.
C4_NoCallWithoutKey ==
    (pc # "load_env" /\ BadKey(environ))
        => /\ log = <<>>
           /\ written = {}
           /\ pc \in {"get_client", "htr_get_client", "raised"}
           /\ pc = "raised" => raised.type = "EnvironmentError"

C4_Witness ==
    /\ pc = "raised"
    /\ environ = Placeholder
    /\ entry = "run_pipeline"
    /\ raised.type = "EnvironmentError"
    /\ log = <<>>

\* C3: when solutions.txt is absent at the solutions step, no Solution
\* Parser request is issued, the solution set {solutions: [], total_marks: 0}
\* is substituted with a console warning, the Grader is still invoked, and
\* when the Transcriber and the Grader succeed both final_output.json and
\* grading_report.txt are written, the solutions section of
\* final_output.json holding zero entries and total marks 0.
C3_AbsentSolutionsStillReport ==
    solfile = "absent"
        => /\ ~Issued("generate:solutions")
           /\ solutions = EmptySolutions
           /\ MissingSolutionsWarning \in console
           /\ Ended => Issued("generate:grade")
           /\ (Ended /\ grading # NullObj)
                 => /\ {OUTPUT_JSON, OUTPUT_REPORT} \subseteq written
                    /\ Len(final_file.solutions.solutions) = 0
                    /\ final_file.solutions.total_marks = 0

GenerationNames ==
    LET gen == SelectSeq(log, LAMBDA c :
                   c.call \in {"generate:transcribe", "generate:solutions",
                               "generate:grade"})
    IN [k \in 1..Len(gen) |-> gen[k].call]

StageOrder ==
    /\ GenerationNames \in
          {<<>>,
           <<"generate:transcribe">>,
           <<"generate:transcribe", "generate:solutions">>,
           <<"generate:transcribe", "generate:grade">>,
           <<"generate:transcribe", "generate:solutions", "generate:grade">>}
    /\ Issued("generate:solutions")
          => solfile = "present" /\ extracted # NullObj
    /\ Issued("generate:grade")
          => /\ extracted # NullObj
             /\ solutions # NullObj
             /\ solfile = "present" => Returned("generate:solutions")
    /\ OUTPUT_JSON \in written
          => grading # NullObj /\ Returned("generate:grade")
    /\ OUTPUT_REPORT \in written => OUTPUT_JSON \in written

\* C10: in any run of run_pipeline the generation requests are issued in
\* the order Transcriber, Solution Parser (if solutions.txt exists), Grader,
\* each at most once and each only after the previous stage has returned;
\* final_output.json is written only after the Grader returned and the
\* report only after final_output.json; after a stage raised no further
\* request is issued and no further artifact is written.
C10_LinearNoRetry ==
    /\ []StageOrder
    /\ [][pc = "raised" => (log' = log /\ written' = written)]_vars

C10_Witness ==
    /\ pc = "done"
    /\ entry = "run_pipeline"
    /\ GenerationNames = <<"generate:transcribe", "generate:solutions",
                           "generate:grade">>
    /\ {OUTPUT_JSON, OUTPUT_REPORT} \subseteq written

====
